---- MODULE Spec2Model ----
(***************************************************************************)
(* TwitchEventSub-rs: the authenticated request layer (twitch_http.rs),    *)
(* the subscription catalog (subscriptions.rs) and the envelope helpers    *)
(* (generic_message.rs).                                                   *)
(*                                                                         *)
(* Rust Option<T> is a sequence of length at most one: None is <<>> and    *)
(* Some(x) is <<x>>.  Rust String values are TLA+ strings and format! is   *)
(* string concatenation.  A chat message, whose length matters at 500, is  *)
(* the record of how many one-byte and how many two-byte characters it     *)
(* holds.                                                                  *)
(***************************************************************************)
EXTENDS Integers, Sequences, FiniteSets, TLC

VARIABLES
  pc,          \* "start" | "building" | "done": position of the caller
  op,          \* the operation that created the current request
  request,     \* the caller's TwitchHttpRequest
  result,      \* what the last operation returned
  executions,  \* number of handle.perform() calls so far
  refreshes,   \* number of refresh-token exchanges so far
  updates,     \* number of update_token calls so far
  outcome,     \* what the executor answered to the last perform()
  sent,        \* the header list handed to the executor by the last run
  prev,        \* the request as it was before the last update_token
  new_tok,     \* the argument of the last update_token
  msg,         \* the message and sender given to the last send_chat_message
  last,        \* name of the last operation taken
  data,        \* RequestBuilder.data
  built,       \* what RequestBuilder::build returned
  query_url,   \* the url given to RequestBuilder::build
  sub,         \* the Subscription under consideration
  keys,        \* TwitchKeys.broadcaster_account_id
  catalog,     \* what the last catalog operation returned
  envelope,    \* the GenericMessage handed to the decoder
  decoded      \* the last call of a decoding helper: its name, input and result

httpVars == <<pc, op, request, result, executions, refreshes, updates, outcome,
              sent, prev, new_tok, msg, last>>
queryVars == <<data, built, query_url>>
catalogVars == <<sub, keys, catalog, envelope>>
decodeVars == <<decoded>>
vars == <<httpVars, queryVars, catalogVars, decodeVars>>

None == <<>>
Some(x) == <<x>>

-----------------------------------------------------------------------------
(* Bounds of the model *)

MaxHeaders == 2
MaxRuns == 2
MaxUpdates == 1
MaxWide == 1
MsgSlack == 2
MaxPairs == 3

-----------------------------------------------------------------------------
(* twitch_http.rs: data *)

MsgLimit == 500
Unauthorized == 401

SEND_MESSAGE_URL == "SEND_MESSAGE_URL"
TWITCH_DELETE_MESSAGE_URL == "TWITCH_DELETE_MESSAGE_URL"
TWITCH_BAN_URL == "TWITCH_BAN_URL"

Tokens == {"tokA"}
ClientIds == {"client"}
AccountIds == {"b1", "u2"}

Bearer == "AuthType::Bearer"
OAuth == "AuthType::OAuth"
AuthType == {Bearer, OAuth}

AuthType_to_string(t) == IF t = Bearer THEN "Bearer" ELSE "OAuth"

Post(d) == [kind |-> "Post", data |-> Some(d)]
Delete == [kind |-> "Delete", data |-> None]

Auth(t, token) == [kind |-> "Auth", auth_type |-> Some(t), value |-> Some(token)]
ClientId(id) == [kind |-> "ClientId", auth_type |-> None, value |-> Some(id)]
ContentJson == [kind |-> "ContentJson", auth_type |-> None, value |-> None]
ContentUrlEncoded == [kind |-> "ContentUrlEncoded", auth_type |-> None, value |-> None]

Header == {Auth(t, k) : t \in AuthType, k \in Tokens}
            \cup {ClientId(c) : c \in ClientIds}
            \cup {ContentJson, ContentUrlEncoded}

generate(h) ==
  CASE h.kind = "Auth" ->
         "Authorization: " \o AuthType_to_string(h.auth_type[1]) \o " " \o h.value[1]
    [] h.kind = "ClientId" -> "Client-Id: " \o h.value[1]
    [] h.kind = "ContentJson" -> "Content-Type: application/json"
    [] h.kind = "ContentUrlEncoded" -> "Content-Type: application/x-www-form-urlencoded"

-----------------------------------------------------------------------------
(* twitch_http.rs: TwitchHttpRequest *)

NoRequest == [url |-> "", headers |-> <<>>, request_type |-> None]

new(url) == [url |-> url, headers |-> <<>>, request_type |-> None]

add_header(r, h) == [r EXCEPT !.headers = Append(@, h)]

header_authorisation(r, token, auth_type) ==
  [r EXCEPT !.headers = Append(@, Auth(auth_type, token))]

header_client_id(r, client_id) == [r EXCEPT !.headers = Append(@, ClientId(client_id))]

\* full_auth forgetting the Client-Id header
full_auth_no_client_id(r, access_token, client_id) ==
  header_authorisation(r, access_token, Bearer)

full_auth(r, access_token, client_id) ==
  header_client_id(header_authorisation(r, access_token, Bearer), client_id)

json_content(r) == [r EXCEPT !.headers = Append(@, ContentJson)]

url_encoded_content(r) == [r EXCEPT !.headers = Append(@, ContentUrlEncoded)]

is_delete(r) == [r EXCEPT !.request_type = Some(Delete)]

is_post(r, d) == [r EXCEPT !.request_type = Some(Post(d))]

\* update_token without the break: every Auth header is rewritten
update_token_no_break(r, new_token) ==
  [r EXCEPT !.headers = [i \in DOMAIN @ |->
     IF @[i].kind = "Auth" THEN [@[i] EXCEPT !.value = Some(new_token)] ELSE @[i]]]

\* the loop stops at the first Auth header it meets
update_token(r, new_token) ==
  LET auths == {i \in DOMAIN r.headers : r.headers[i].kind = "Auth"}
  IN  IF auths = {} THEN r
      ELSE LET first == CHOOSE i \in auths : \A j \in auths : i <= j
           IN  [r EXCEPT !.headers[first].value = Some(new_token)]

\* the curl header list built by run
http_headers(r) == [i \in DOMAIN r.headers |-> generate(r.headers[i])]

-----------------------------------------------------------------------------
(* The executor (curl) and the classification of its answer by run *)

\* handle.perform(): Ok, or Err(e) where e.to_string() is some text.  The text
\* either is not a JSON Validation (json = FALSE) or decodes to a Validation
\* whose status and message are optional.
Statuses == {400, Unauthorized, 403, 500}
Outcomes ==
  {[ok |-> TRUE, json |-> FALSE, status |-> None, message |-> None]}
    \cup {[ok |-> FALSE, json |-> FALSE, status |-> None, message |-> None]}
    \cup {[ok |-> FALSE, json |-> TRUE, status |-> s, message |-> m] :
            s \in {None} \cup {Some(x) : x \in Statuses},
            m \in {None, Some("msg")}}
NoOutcome == [ok |-> TRUE, json |-> FALSE, status |-> None, message |-> None]

Validation_is_error(v) == v.status # None

Ok == [kind |-> "Ok", request |-> NoRequest]
Err(kind, r) == [kind |-> kind, request |-> r]
Panicked == [kind |-> "panic", request |-> NoRequest]
NoResult == [kind |-> "none", request |-> NoRequest]

\* run without the 401 test: every Validation error is InvalidOauthToken
run_no_401_test(r, o) ==
  IF o.ok THEN Ok
  ELSE IF o.json /\ Validation_is_error(o)
       THEN IF o.message = None THEN Panicked ELSE Err("InvalidOauthToken", NoRequest)
       ELSE Err("CurlFailed", NoRequest)

\* Validation::error_msg unwraps the optional message
run(r, o) ==
  IF o.ok THEN Ok
  ELSE IF o.json /\ Validation_is_error(o)
       THEN IF o.status[1] = Unauthorized
            THEN Err("TokenRequiresRefreshing", r)
            ELSE IF o.message = None THEN Panicked
                 ELSE Err("InvalidOauthToken", NoRequest)
       ELSE Err("CurlFailed", NoRequest)

-----------------------------------------------------------------------------
(* twitch_http.rs: RequestBuilder *)

RequestBuilder_new == <<>>

add_key_value(d, key, value) == Append(d, <<key, value>>)

RECURSIVE build_loop(_, _)
build_loop(req, d) ==
  IF d = <<>> THEN req
  ELSE build_loop(req \o "&" \o Head(d)[1] \o "=" \o Head(d)[2], Tail(d))

build(d, url) == build_loop(IF d # <<>> THEN url \o "?" ELSE url, d)

-----------------------------------------------------------------------------
(* twitch_http.rs: TwitchApi *)

\* a message of m.ascii one-byte characters and m.wide two-byte characters
Messages == {[ascii |-> a, wide |-> w] :
               a \in (MsgLimit - MsgSlack)..(MsgLimit + 1), w \in 0..MaxWide}
NoMessage == [ascii |-> 0, wide |-> 0]

\* String::len counts the bytes of the UTF-8 encoding
len(m) == m.ascii + 2 * m.wide
chars_count(m) == m.ascii + m.wide

\* serde_json::to_string of a struct: its keys in declaration order, a None as null
to_string_SendMessage(s) ==
  <<"broadcaster_id", s.broadcaster_id, "sender_id", s.sender_id,
    "message", s.message,
    "reply_parent_message_id",
    IF s.reply_parent_message_id = None THEN "null" ELSE s.reply_parent_message_id[1]>>

to_string_SendTimeoutRequest(s) ==
  <<"data", <<"user_id", s.user_id, "duration", s.duration, "reason", s.reason>>>>

\* every operation returns its result, the request it built and whether run was reached
Outcome(res, r, ran) == [result |-> res, request |-> r, executed |-> ran]

send_chat_message(message, access_token, client_id, broadcaster_account_id, sender_account_id, is_reply_parent_message_id, o) ==
  IF len(message) > MsgLimit THEN Outcome(Err("MessageTooLong", NoRequest), NoRequest, FALSE)
  \* sender_account_id.ok_or(broadcaster_account_id) is Err(..) for None, and
  \* map leaves an Err alone, so unwrap panics
  ELSE IF sender_account_id = None THEN Outcome(Panicked, NoRequest, FALSE)
  ELSE LET body == to_string_SendMessage(
                     [broadcaster_id |-> broadcaster_account_id,
                      sender_id |-> sender_account_id[1],
                      message |-> message,
                      reply_parent_message_id |-> is_reply_parent_message_id])
           r == is_post(full_auth(json_content(new(SEND_MESSAGE_URL)),
                                  access_token, client_id), body)
       IN  Outcome(run(r, o), r, TRUE)

delete_message(broadcaster_id, moderator_id, message_id, access_token, client_id, o) ==
  LET url == build(add_key_value(add_key_value(add_key_value(RequestBuilder_new,
                     "broadcaster_id", broadcaster_id),
                     "moderator_id", moderator_id),
                     "message_id", message_id), TWITCH_DELETE_MESSAGE_URL)
      r == is_delete(header_client_id(
             header_authorisation(new(url), access_token, Bearer), client_id))
  IN  Outcome(run(r, o), r, TRUE)

timeout_user(access_token, client_id, broadcaster_id, moderator_id, user_id, duration_secs, reason, o) ==
  LET url == build(add_key_value(add_key_value(RequestBuilder_new,
                     "broadcaster_id", broadcaster_id),
                     "moderator_id", moderator_id), TWITCH_BAN_URL)
      post_data == to_string_SendTimeoutRequest(
                     [user_id |-> user_id, duration |-> duration_secs, reason |-> reason])
      r == is_post(json_content(header_client_id(
             header_authorisation(new(url), access_token, Bearer), client_id)), post_data)
  IN  Outcome(run(r, o), r, TRUE)

-----------------------------------------------------------------------------
(* The caller of the request layer *)

RefreshedTokens == {"tokNew"}
AllTokens == Tokens \cup RefreshedTokens
Urls == {SEND_MESSAGE_URL}
RawBodies == {<<"raw">>}

QueryIdle == data = <<>> /\ built = None /\ query_url = ""
NoCatalog == [op |-> "none", arg |-> None, value |-> None]
NoEnvelope == [metadata |-> [message_type |-> "", subscription_type |-> None]]
CatalogIdle ==
  sub = "UserUpdate" /\ keys = "b1" /\ catalog = NoCatalog /\ envelope = NoEnvelope
NoDecoded == [op |-> "none", arg |-> None, value |-> None]
DecodeIdle == decoded = NoDecoded

HttpIdle ==
  /\ pc = "start" /\ op = "none" /\ request = NoRequest /\ result = NoResult
  /\ executions = 0 /\ refreshes = 0 /\ updates = 0
  /\ outcome = NoOutcome /\ sent = <<>>
  /\ prev = NoRequest /\ new_tok = None
  /\ msg = [message |-> NoMessage, sender |-> None]
  /\ last = "init"

HttpInit == HttpIdle /\ QueryIdle /\ CatalogIdle /\ DecodeIdle

\* the caller receives what an operation of TwitchApi returned
Returned(out, o, name) ==
  /\ pc' = "done" /\ op' = name /\ last' = name
  /\ request' = out.request
  /\ result' = out.result
  /\ executions' = executions + (IF out.executed THEN 1 ELSE 0)
  /\ outcome' = IF out.executed THEN o ELSE outcome
  /\ sent' = IF out.executed THEN http_headers(out.request) ELSE sent
  /\ UNCHANGED <<refreshes, updates, prev, new_tok, queryVars, catalogVars, decodeVars>>

SendChatMessage ==
  /\ pc = "start"
  /\ \E m \in Messages, t \in Tokens, c \in ClientIds,
        s \in {None} \cup {Some(a) : a \in AccountIds},
        rp \in {None, Some("parent")}, o \in Outcomes :
       /\ Returned(send_chat_message(m, t, c, "b1", s, rp, o), o, "send_chat_message")
       /\ msg' = [message |-> m, sender |-> s]

DeleteMessage ==
  /\ pc = "start"
  /\ \E b \in AccountIds, m \in AccountIds, t \in Tokens, c \in ClientIds, o \in Outcomes :
       Returned(delete_message(b, m, "m1", t, c, o), o, "delete_message")
  /\ UNCHANGED msg

TimeoutUser ==
  /\ pc = "start"
  /\ \E b \in AccountIds, m \in AccountIds, t \in Tokens, c \in ClientIds, o \in Outcomes :
       Returned(timeout_user(t, c, b, m, "u9", 60, "spam", o), o, "timeout_user")
  /\ UNCHANGED msg

\* a caller assembling a request with the public builder methods
Building(r) ==
  /\ request' = r /\ pc' = "building" /\ op' = "builder" /\ last' = "build"
  /\ prev' = NoRequest /\ new_tok' = None
  /\ UNCHANGED <<result, executions, refreshes, updates, outcome, sent, msg>>
  /\ UNCHANGED <<queryVars, catalogVars, decodeVars>>

New == pc = "start" /\ \E url \in Urls : Building(new(url))

Room == pc = "building" /\ Len(request.headers) < MaxHeaders

AddHeader == Room /\ \E h \in Header : Building(add_header(request, h))

HeaderAuthorisation ==
  /\ Room
  /\ \E t \in Tokens, a \in AuthType :
       Building(header_authorisation(request, t, a))

HeaderClientId ==
  Room /\ \E c \in ClientIds : Building(header_client_id(request, c))

FullAuth ==
  /\ pc = "building" /\ Len(request.headers) + 1 < MaxHeaders
  /\ \E t \in Tokens, c \in ClientIds : Building(full_auth(request, t, c))

JsonContent == Room /\ Building(json_content(request))

UrlEncodedContent == Room /\ Building(url_encoded_content(request))

IsDelete == pc = "building" /\ Building(is_delete(request))

IsPost == pc = "building" /\ \E d \in RawBodies : Building(is_post(request, d))

\* the caller holds a request while building it, or gets one back inside
\* TokenRequiresRefreshing
Holding == pc = "building" \/ (pc = "done" /\ result.kind = "TokenRequiresRefreshing")

UpdateToken ==
  /\ Holding /\ updates < MaxUpdates
  /\ \E t \in AllTokens :
       /\ request' = update_token(request, t)
       /\ new_tok' = Some(t)
  /\ prev' = request
  /\ updates' = updates + 1
  /\ last' = "update_token"
  /\ UNCHANGED <<pc, op, result, executions, refreshes, outcome, sent, msg>>
  /\ UNCHANGED <<queryVars, catalogVars, decodeVars>>

Run ==
  /\ Holding /\ executions < MaxRuns
  /\ \E o \in Outcomes :
       /\ result' = run(request, o)
       /\ outcome' = o
  /\ sent' = http_headers(request)
  /\ executions' = executions + 1
  /\ pc' = "done"
  /\ last' = "run"
  /\ UNCHANGED <<op, request, refreshes, updates, prev, new_tok, msg>>
  /\ UNCHANGED <<queryVars, catalogVars, decodeVars>>

\* Refresh and replay once: on TokenRequiresRefreshing one refresh-token
\* exchange; when it fails the operation ends with InvalidOauthToken, otherwise
\* the new access token is put into the request carried by the error, which
\* is executed again, and what that execution returns is the result.
TokenLifecycle ==
  /\ pc = "done" /\ result.kind = "TokenRequiresRefreshing" /\ refreshes = 0
  /\ refreshes' = refreshes + 1
  /\ \E refreshed \in {None} \cup {Some(t) : t \in RefreshedTokens}, o \in Outcomes :
       IF refreshed = None
       THEN /\ result' = Err("InvalidOauthToken", NoRequest)
            /\ last' = "refresh_failed"
            /\ UNCHANGED <<request, executions, updates, outcome, sent, prev, new_tok>>
       ELSE /\ request' = update_token(result.request, refreshed[1])
            /\ prev' = result.request
            /\ new_tok' = refreshed
            /\ updates' = updates + 1
            /\ result' = run(request', o)
            /\ outcome' = o
            /\ sent' = http_headers(request')
            /\ executions' = executions + 1
            /\ last' = "replayed"
  /\ UNCHANGED <<pc, op, msg, queryVars, catalogVars, decodeVars>>

HttpNext ==
  \/ SendChatMessage \/ DeleteMessage \/ TimeoutUser
  \/ New \/ AddHeader \/ HeaderAuthorisation \/ HeaderClientId \/ FullAuth
  \/ JsonContent \/ UrlEncodedContent \/ IsDelete \/ IsPost
  \/ UpdateToken \/ Run \/ TokenLifecycle

SpecHttp == HttpInit /\ [][HttpNext]_vars

-----------------------------------------------------------------------------
(* Properties of the request layer *)

Is401(o) == ~o.ok /\ o.json /\ o.status = Some(Unauthorized)
RunOps == {"send_chat_message", "delete_message", "timeout_user", "run", "replayed"}
AuthenticatedOps == {"send_chat_message", "delete_message", "timeout_user"}
AuthIndexes(r) == {i \in DOMAIN r.headers : r.headers[i].kind = "Auth"}
AuthorizationLines ==
  {"Authorization: " \o a \o " " \o t : a \in {"Bearer", "OAuth"}, t \in AllTokens}
ClientIdLines == {"Client-Id: " \o c : c \in ClientIds}
JsonLine == "Content-Type: application/json"
UrlEncodedLine == "Content-Type: application/x-www-form-urlencoded"
Lines(S) == {i \in DOMAIN sent : sent[i] \in S}

C2_UnauthorizedRequiresRefreshing ==
  (last \in RunOps /\ Is401(outcome)) =>
    /\ result.kind = "TokenRequiresRefreshing"
    /\ result.request.url = request.url
    /\ result.request.headers = request.headers
    /\ result.request.request_type = request.request_type

C2_Witness ==
  /\ last = "send_chat_message" /\ Is401(outcome)
  /\ result.kind = "TokenRequiresRefreshing"
  /\ Len(result.request.headers) = 3
  /\ result.request.request_type # None

\* C3: every execution is one attempt, and every failure that is not a 401
\* Validation is returned as CurlFailed.
C3_OtherFailuresAreCurlFailed ==
  [][(last' \in RunOps /\ executions' # executions) =>
       /\ executions' = executions + 1
       /\ (~outcome'.ok /\ ~Is401(outcome')) => result'.kind = "CurlFailed"]_vars

\* C4 as stated: update_token leaves url, request type, auth types and every
\* header that is not an Authorization header as they were, and afterwards
\* every Authorization header carries new_token and no header carries the
\* original token.
C4_EveryAuthorizationReplaced ==
  (last \in {"update_token", "replayed"}) =>
    /\ request.url = prev.url
    /\ request.request_type = prev.request_type
    /\ DOMAIN request.headers = DOMAIN prev.headers
    /\ \A i \in DOMAIN prev.headers :
         /\ request.headers[i].kind = prev.headers[i].kind
         /\ request.headers[i].auth_type = prev.headers[i].auth_type
         /\ i \notin AuthIndexes(prev) => request.headers[i] = prev.headers[i]
         /\ i \in AuthIndexes(prev) => request.headers[i].value = new_tok
    /\ \A i \in AuthIndexes(prev), j \in DOMAIN request.headers :
         prev.headers[i].value # new_tok => request.headers[j].value # prev.headers[i].value

\* C4 amended: update_token rewrites the token of the first Authorization
\* header only and leaves the url, the request type and every other header
\* (a later Authorization header too) as they were; when the request has
\* exactly one Authorization header, that header then carries new_token, and
\* so does the Authorization line the replay sends.
C4_FirstAuthorizationReplaced ==
  (last \in {"update_token", "replayed"}) =>
    /\ request.url = prev.url
    /\ request.request_type = prev.request_type
    /\ DOMAIN request.headers = DOMAIN prev.headers
    /\ \A i \in DOMAIN prev.headers :
         IF i \in AuthIndexes(prev) /\ \A j \in AuthIndexes(prev) : i <= j
         THEN request.headers[i] = [prev.headers[i] EXCEPT !.value = new_tok]
         ELSE request.headers[i] = prev.headers[i]
    /\ Cardinality(AuthIndexes(prev)) = 1 =>
         /\ \A i \in AuthIndexes(request) : request.headers[i].value = new_tok
         /\ last = "replayed" =>
              \A i \in AuthIndexes(request) :
                sent[i] = "Authorization: "
                            \o (IF request.headers[i].auth_type = Some(Bearer)
                                THEN "Bearer" ELSE "OAuth")
                            \o " " \o new_tok[1]

C4_Witness ==
  /\ last = "replayed"
  /\ Len(prev.headers) = 3
  /\ prev.headers[2] = Auth(Bearer, "tokA")
  /\ request.headers[2] = Auth(Bearer, "tokNew")
  /\ sent[2] = "Authorization: Bearer tokNew"

\* C5, for the calls that name a sender: send_chat_message returns
\* MessageTooLong without reaching the executor when the message is longer
\* than 500 units and reaches the executor otherwise; a message of 501
\* characters never reaches it and every message of 500 characters does.
C5_LengthGuard ==
  (last = "send_chat_message" /\ msg.sender # None) =>
    /\ len(msg.message) > MsgLimit => (result.kind = "MessageTooLong" /\ executions = 0)
    /\ len(msg.message) <= MsgLimit => executions = 1
    /\ chars_count(msg.message) = MsgLimit + 1 => executions = 0
    /\ chars_count(msg.message) = MsgLimit => executions = 1

\* C6: a request of send_chat_message, delete_message or timeout_user that
\* reached run, also after update_token calls, has exactly one Authorization
\* header and one Client-Id header, and a JSON Content-Type header exactly
\* when it is a POST with a JSON body.
C6_HeaderComposition ==
  (op \in AuthenticatedOps /\ executions > 0) =>
    /\ Cardinality(Lines(AuthorizationLines)) = 1
    /\ Cardinality(Lines(ClientIdLines)) = 1
    /\ Cardinality(Lines({UrlEncodedLine})) = 0
    /\ Cardinality(Lines({JsonLine})) = (IF request.request_type[1].kind = "Post" THEN 1 ELSE 0)
    /\ Cardinality(Lines(AuthorizationLines \cup ClientIdLines \cup {JsonLine})) = Len(sent)
    /\ Cardinality(AuthIndexes(request)) = 1

C6_Witness ==
  /\ op = "delete_message" /\ last = "replayed" /\ updates > 1
  /\ Len(sent) = 2 /\ request.request_type = Some(Delete)

-----------------------------------------------------------------------------
(* A caller of RequestBuilder *)

QueryKeys == {"broadcaster_id", "message_id"}
QueryValues == {"1", "23"}
QueryUrls == {TWITCH_DELETE_MESSAGE_URL}

QueryInit == HttpIdle /\ QueryIdle /\ CatalogIdle /\ DecodeIdle

AddKeyValue ==
  /\ built = None /\ Len(data) < MaxPairs
  /\ \E k \in QueryKeys, v \in QueryValues : data' = add_key_value(data, k, v)
  /\ UNCHANGED <<built, query_url, httpVars, catalogVars, decodeVars>>

\* build consumes the builder
Build ==
  /\ built = None
  /\ \E url \in QueryUrls :
       /\ built' = Some(build(data, url))
       /\ query_url' = url
  /\ UNCHANGED <<data, httpVars, catalogVars, decodeVars>>

QueryNext == AddKeyValue \/ Build

SpecQuery == QueryInit /\ [][QueryNext]_vars

RECURSIVE JoinPairs(_)
JoinPairs(d) ==
  IF Len(d) = 1 THEN d[1][1] \o "=" \o d[1][2]
  ELSE JoinPairs(SubSeq(d, 1, Len(d) - 1)) \o "&" \o d[Len(d)][1] \o "=" \o d[Len(d)][2]

\* C7: build returns the url unchanged when no pair was added, and otherwise the
\* url, then '?', then the pairs as key=value in insertion order with '&'
\* between consecutive pairs only.
C7_QueryString ==
  built # None =>
    built[1] = (IF data = <<>> THEN query_url ELSE query_url \o "?" \o JoinPairs(data))

-----------------------------------------------------------------------------
(* subscriptions.rs: Subscription, EventSubscription, Condition *)

\* the variants in the order the from_string! invocation lists them
Concrete ==
  <<"UserUpdate", "ChannelFollow", "ChannelRaid", "ChannelUpdate", "ChannelSubscribe",
    "ChannelSubscriptionEnd", "ChannelSubscriptionGift", "ChannelSubscriptionMessage",
    "ChannelCheer", "ChannelPointsCustomRewardRedeem", "ChannelPointsAutoRewardRedeem",
    "ChannelPollBegin", "ChannelPollProgress", "ChannelPollEnd",
    "ChannelPredictionBegin", "ChannelPredictionProgress", "ChannelPredictionLock",
    "ChannelPredictionEnd", "ChannelGoalBegin", "ChannelGoalProgress", "ChannelGoalEnd",
    "ChannelHypeTrainBegin", "ChannelHypeTrainProgress", "ChannelHypeTrainEnd",
    "ChannelShoutoutCreate", "ChannelShoutoutReceive", "ChatMessage", "BanTimeoutUser",
    "DeleteMessage", "AdBreakBegin">>

Variant(v) == [variant |-> v, custom |-> None]
Custom(tag_, scope, event) == [variant |-> "Custom", custom |-> Some(<<tag_, scope, event>>)]

ConditionFields ==
  {"user_id", "moderator_user_id", "broadcaster_user_id", "reward_id",
   "from_broadcaster_user_id", "to_broadcaster_user_id", "organisation_id",
   "category_id", "campaign_id", "extension_client_id"}

Condition_new == [f \in ConditionFields |-> None]

user_id(c, id) == [c EXCEPT !["user_id"] = Some(id)]
moderator_user_id(c, id) == [c EXCEPT !["moderator_user_id"] = Some(id)]
broadcaster_user_id(c, id) == [c EXCEPT !["broadcaster_user_id"] = Some(id)]
reward_id(c, id) == [c EXCEPT !["reward_id"] = Some(id)]
from_broadcaster_user_id(c, id) == [c EXCEPT !["from_broadcaster_user_id"] = Some(id)]
to_broadcaster_user_id(c, id) == [c EXCEPT !["to_broadcaster_user_id"] = Some(id)]

Transport_new(session_id) == [method |-> "websocket", session_id |-> session_id]

details(s) ==
  CASE s.variant = "UserUpdate" -> <<"user.update", "", "1">>
    [] s.variant = "ChannelFollow" -> <<"channel.follow", "moderator:read:followers", "2">>
    [] s.variant = "ChannelRaid" -> <<"channel.raid", "", "1">>
    [] s.variant = "ChatMessage" ->
         <<"channel.chat.message", "user:read:chat+user:write:chat", "1">>
    [] s.variant = "ChannelPointsCustomRewardRedeem" ->
         <<"channel.channel_points_custom_reward_redemption.add",
           "channel:read:redemptions", "1">>
    [] s.variant = "AdBreakBegin" -> <<"channel.ad_break.begin", "channel:read:ads", "1">>
    [] s.variant = "ChannelUpdate" -> <<"channel.update", "", "2">>
    [] s.variant = "BanTimeoutUser" -> <<"", "moderator:manage:banned_users", "">>
    [] s.variant = "DeleteMessage" -> <<"", "moderator:manage:chat_messages", "">>
    [] s.variant = "ChannelSubscribe" ->
         <<"channel.subscribe", "channel:read:subscriptions", "1">>
    [] s.variant = "ChannelSubscriptionEnd" ->
         <<"channel.subscription.end", "channel:read:subscriptions", "1">>
    [] s.variant = "ChannelSubscriptionGift" ->
         <<"channel.subscription.gift", "channel:read:subscriptions", "1">>
    [] s.variant = "ChannelSubscriptionMessage" ->
         <<"channel.subscription.message", "channel:read:subscriptions", "1">>
    [] s.variant = "ChannelCheer" -> <<"channel.cheer", "bits:read", "1">>
    [] s.variant = "ChannelPointsAutoRewardRedeem" ->
         <<"channel.channel_points_automatic_reward_redemption.add",
           "channel:read:redemptions", "1">>
    [] s.variant = "ChannelPollBegin" ->
         <<"channel.poll.begin", "channel:read:polls+channel:manage:polls", "1">>
    [] s.variant = "ChannelPollProgress" ->
         <<"channel.poll.progress", "channel:read:polls+channel:manage:polls", "1">>
    [] s.variant = "ChannelPollEnd" ->
         <<"channel.poll.end", "channel:read:polls+channel:manage:polls", "1">>
    [] s.variant = "ChannelPredictionBegin" ->
         <<"channel.prediction.begin",
           "channel:read:predictions+channel:manage:predictions", "1">>
    [] s.variant = "ChannelPredictionProgress" ->
         <<"channel.prediction.progress",
           "channel:read:predictions+channel:manage:predictions", "1">>
    [] s.variant = "ChannelPredictionLock" ->
         <<"channel.prediction.lock",
           "channel:read:predictions+channel:manage:predictions", "1">>
    [] s.variant = "ChannelPredictionEnd" ->
         <<"channel.prediction.end",
           "channel:read:predictions+channel:manage:predictions", "1">>
    [] s.variant = "ChannelGoalBegin" -> <<"channel.goal.begin", "channel:read:goals", "1">>
    [] s.variant = "ChannelGoalProgress" ->
         <<"channel.goal.progress", "channel:read:goals", "1">>
    [] s.variant = "ChannelGoalEnd" -> <<"channel.goal.end", "channel:read:goals", "1">>
    [] s.variant = "ChannelHypeTrainBegin" ->
         <<"channel.hype_train.begin", "channel:read:hype_train", "1">>
    [] s.variant = "ChannelHypeTrainProgress" ->
         <<"channel.hype_train.progress", "channel:read:hype_train", "1">>
    [] s.variant = "ChannelHypeTrainEnd" ->
         <<"channel.hype_train.end", "channel:read:hype_train", "1">>
    [] s.variant = "ChannelShoutoutCreate" ->
         <<"channel.shoutout.create",
           "moderator:read:shoutouts+moderator:manage:shoutouts", "1">>
    [] s.variant = "ChannelShoutoutReceive" ->
         <<"channel.shoutout.receive",
           "moderator:read:shoutouts+moderator:manage:shoutouts", "1">>
    [] s.variant = "Custom" -> <<s.custom[1][1], s.custom[1][2], "">>

tag(s) == details(s)[1]

\* required_scope returning the version element of the triple
required_scope_wrong_element(s) == details(s)[3]

required_scope(s) == details(s)[2]

version(s) == details(s)[3]

\* from_string keeping the last variant whose tag matches instead of the first
from_string_last_match(t) ==
  LET hits == {i \in DOMAIN Concrete : tag(Variant(Concrete[i])) = t}
  IN  IF hits = {} THEN None
      ELSE Some(Variant(Concrete[CHOOSE i \in hits : \A j \in hits : i >= j]))

\* the macro tests the variants one after the other and returns at the first match
from_string(t) ==
  LET hits == {i \in DOMAIN Concrete : tag(Variant(Concrete[i])) = t}
  IN  IF hits = {} THEN None
      ELSE Some(Variant(Concrete[CHOOSE i \in hits : \A j \in hits : i <= j]))

EventSubscription_new(event, transport) ==
  [kind |-> tag(event), version |-> version(event),
   condition |-> Condition_new, transport |-> transport]

EventSubscription_transport(e, transport) == [e EXCEPT !.transport = transport]

EventSubscription_condition(e, condition) == [e EXCEPT !.condition = condition]

construct_data(s, session_id, twitch_keys) ==
  LET transport == Transport_new(session_id)
      event_subscription == EventSubscription_new(s, transport)
      condition == broadcaster_user_id(Condition_new, twitch_keys)
  IN  CASE s.variant = "UserUpdate" ->
             EventSubscription_condition(event_subscription,
                                         user_id(Condition_new, twitch_keys))
        [] s.variant = "ChannelFollow" ->
             EventSubscription_condition(event_subscription,
               user_id(moderator_user_id(condition, twitch_keys), twitch_keys))
        [] s.variant = "ChatMessage" ->
             EventSubscription_condition(event_subscription, user_id(condition, twitch_keys))
        [] s.variant \in {"ChannelPointsCustomRewardRedeem", "AdBreakBegin", "ChannelRaid",
                          "ChannelUpdate", "ChannelSubscribe", "ChannelSubscriptionEnd",
                          "ChannelSubscriptionGift", "ChannelSubscriptionMessage"} ->
             EventSubscription_condition(event_subscription, condition)
        [] s.variant = "Custom" ->
             EventSubscription_transport(s.custom[1][3], Transport_new(session_id))
        [] OTHER -> event_subscription

\* the fields of Condition in declaration order, under their serde names
ConditionOrder ==
  <<"user_id", "moderator_user_id", "broadcaster_user_id", "reward_id",
    "from_broadcaster_user_id", "to_broadcaster_user_id", "organisation_id",
    "category_id", "campaign_id", "extension_client_id">>

\* the derived Serialize of Condition: no field carries skip_serializing_if,
\* so every field is written, a None as the JSON value null
to_string_Condition(c) ==
  [i \in DOMAIN ConditionOrder |->
     <<ConditionOrder[i],
       IF c[ConditionOrder[i]] = None THEN "null"
       ELSE "\"" \o c[ConditionOrder[i]][1] \o "\"">>]

-----------------------------------------------------------------------------
(* generic_message.rs: GenericMessage *)

\* both unwraps panic: on an absent subscription_type and on an unknown tag
subscription_type(m) ==
  IF m.metadata.subscription_type = None THEN [panicked |-> TRUE, value |-> None]
  ELSE LET found == from_string(m.metadata.subscription_type[1])
       IN  IF found = None THEN [panicked |-> TRUE, value |-> None]
           ELSE [panicked |-> FALSE, value |-> found]

-----------------------------------------------------------------------------
(* A caller of the catalog and of the decoder *)

SessionIds == {"s1", "s2"}
CustomEvents ==
  {[kind |-> "x.custom", version |-> "1", condition |-> c, transport |-> Transport_new("")] :
     c \in {Condition_new, reward_id(broadcaster_user_id(Condition_new, "b7"), "r1")}}
Subscriptions ==
  {Variant(Concrete[i]) : i \in DOMAIN Concrete}
    \cup {Custom("x.custom", "x:read", e) : e \in CustomEvents}
WireTags ==
  {tag(Variant(Concrete[i])) : i \in DOMAIN Concrete} \cup {"x.custom", "channel.unknown"}
Envelopes ==
  {[metadata |-> [message_type |-> mt, subscription_type |-> st]] :
     mt \in {"notification", "session_welcome"},
     st \in {None, Some("channel.follow"), Some("channel.unknown")}}

CatalogInit ==
  /\ HttpIdle /\ QueryIdle /\ DecodeIdle
  /\ sub \in Subscriptions /\ keys \in AccountIds
  /\ catalog = NoCatalog /\ envelope = NoEnvelope

Details ==
  /\ catalog' = [op |-> "details", arg |-> None,
                 value |-> <<tag(sub), required_scope(sub), version(sub)>>]
  /\ UNCHANGED <<sub, keys, envelope, httpVars, queryVars, decodeVars>>

ConstructData ==
  /\ \E sid \in SessionIds :
       catalog' = [op |-> "construct_data", arg |-> Some(sid),
                   value |-> construct_data(sub, sid, keys)]
  /\ UNCHANGED <<sub, keys, envelope, httpVars, queryVars, decodeVars>>

FromString ==
  /\ \E t \in WireTags :
       catalog' = [op |-> "from_string", arg |-> Some(t), value |-> from_string(t)]
  /\ UNCHANGED <<sub, keys, envelope, httpVars, queryVars, decodeVars>>

SubscriptionType ==
  /\ \E e \in Envelopes :
       /\ envelope' = e
       /\ catalog' = [op |-> "subscription_type", arg |-> None,
                      value |-> subscription_type(e)]
  /\ UNCHANGED <<sub, keys, httpVars, queryVars, decodeVars>>

\* the condition of the subscription request, as it is written on the wire
SerialiseCondition ==
  /\ \E sid \in SessionIds :
       LET c == construct_data(sub, sid, keys).condition
       IN  catalog' = [op |-> "to_string", arg |-> Some(sid),
                       value |-> [condition |-> c, json |-> to_string_Condition(c)]]
  /\ UNCHANGED <<sub, keys, envelope, httpVars, queryVars, decodeVars>>

\* a kind written as its wire tag and looked up again
RoundTrip ==
  /\ catalog' = [op |-> "round_trip", arg |-> Some(tag(sub)),
                 value |-> from_string(tag(sub))]
  /\ UNCHANGED <<sub, keys, envelope, httpVars, queryVars, decodeVars>>

CatalogNext ==
  \/ Details \/ ConstructData \/ FromString \/ SubscriptionType
  \/ SerialiseCondition \/ RoundTrip

SpecCatalog == CatalogInit /\ [][CatalogNext]_vars

-----------------------------------------------------------------------------
(* Properties of the catalog *)

Numerals == {"0", "1", "2", "3", "4", "5", "6", "7", "8", "9"}
IsConcrete(s) == s.variant # "Custom"

\* C8 as stated: for every concrete kind required_scope is non-empty unless the
\* kind is UserUpdate or ChannelRaid, and version is a non-empty numeral.
C8_ScopeAndVersion ==
  (catalog.op = "details" /\ IsConcrete(sub)) =>
    /\ sub.variant \notin {"UserUpdate", "ChannelRaid"} => catalog.value[2] # ""
    /\ catalog.value[3] \in Numerals

\* C8 amended: for every concrete kind required_scope is non-empty unless the
\* kind is UserUpdate, ChannelRaid or ChannelUpdate, and version is a non-empty
\* numeral unless the kind is BanTimeoutUser or DeleteMessage, whose version
\* is empty.
C8_ScopeAndVersionAmended ==
  (catalog.op = "details" /\ IsConcrete(sub)) =>
    /\ sub.variant \notin {"UserUpdate", "ChannelRaid", "ChannelUpdate"} =>
         catalog.value[2] # ""
    /\ IF sub.variant \in {"BanTimeoutUser", "DeleteMessage"}
       THEN catalog.value[3] = ""
       ELSE catalog.value[3] \in Numerals

C8_Witness ==
  /\ catalog.op = "details" /\ sub = Variant("ChannelUpdate")
  /\ catalog.value = <<"channel.update", "", "2">>

\* C9: looking a wire tag up never fails: a tag of no concrete kind gives None,
\* and GenericMessage::subscription_type does not panic on an envelope whose
\* subscription_type is absent or is no tag of the catalog.
C9_LookupNeverFails ==
  /\ catalog.op = "from_string" =>
       ((\A i \in DOMAIN Concrete : tag(Variant(Concrete[i])) # catalog.arg[1])
          => catalog.value = None)
  /\ catalog.op = "subscription_type" => ~catalog.value.panicked

\* the filter shape the vendor declares for each kind
DeclaredFields(v) ==
  CASE v = "UserUpdate" -> {"user_id"}
    [] v = "ChannelFollow" -> {"broadcaster_user_id", "moderator_user_id"}
    [] v = "ChatMessage" -> {"broadcaster_user_id", "user_id"}
    [] v = "ChannelRaid" -> {"from_broadcaster_user_id", "to_broadcaster_user_id"}
    [] v = "ChannelPointsCustomRewardRedeem" -> {"broadcaster_user_id", "reward_id"}
    [] v \in {"ChannelShoutoutCreate", "ChannelShoutoutReceive"} ->
         {"broadcaster_user_id", "moderator_user_id"}
    [] v \in {"BanTimeoutUser", "DeleteMessage"} -> {}
    [] OTHER -> {"broadcaster_user_id"}

Populated(c) == {f \in ConditionFields : c[f] # None}

\* C10: the Condition construct_data builds for a kind has no field populated
\* outside the filter shape declared for that kind, and for Custom it is the
\* Condition the caller supplied.
C10_ConditionWithinDeclaredShape ==
  catalog.op = "construct_data" =>
    IF sub.variant = "Custom"
    THEN catalog.value.condition = sub.custom[1][3].condition
    ELSE Populated(catalog.value.condition) \subseteq DeclaredFields(sub.variant)

\* C11: the wire encoding of the Condition of a subscription request has a
\* key for exactly the populated fields: a field left unset is omitted, not
\* written with the value null.
C11_UnsetFieldsOmitted ==
  catalog.op = "to_string" =>
    LET json == catalog.value.json
    IN  /\ {json[i][1] : i \in DOMAIN json} = Populated(catalog.value.condition)
        /\ \A i \in DOMAIN json : json[i][2] # "null"

\* C14 as stated: for every concrete kind k, from_string(k.tag()) is Some(k).
C14_TagRoundTrip ==
  (catalog.op = "round_trip" /\ IsConcrete(sub)) => catalog.value = Some(sub)

\* C14 amended: for every concrete kind k other than BanTimeoutUser and
\* DeleteMessage, from_string(k.tag()) is Some(k); those two share the empty
\* tag, for which from_string returns BanTimeoutUser.
C14_TagRoundTripAmended ==
  (catalog.op = "round_trip" /\ IsConcrete(sub)) =>
    IF sub.variant \in {"BanTimeoutUser", "DeleteMessage"}
    THEN catalog.arg = Some("") /\ catalog.value = Some(Variant("BanTimeoutUser"))
    ELSE catalog.arg # Some("") /\ catalog.value = Some(sub)

C14_Witness ==
  /\ catalog.op = "round_trip" /\ sub = Variant("ChatMessage")
  /\ catalog.arg = Some("channel.chat.message")
  /\ catalog.value = Some(Variant("ChatMessage"))

\* C15: send_chat_message with a message of at most 500 units reaches run for
\* both values of sender_account_id, and in the body sender_id is the given
\* sender id, or the broadcaster account id when none is given.
C15_SenderDefaultsToBroadcaster ==
  (last = "send_chat_message" /\ len(msg.message) <= MsgLimit) =>
    /\ executions = 1
    /\ result.kind # "panic"
    /\ request.request_type # None
    /\ request.request_type[1].data[1][4] =
         (IF msg.sender = None THEN "b1" ELSE msg.sender[1])

-----------------------------------------------------------------------------
(* generic_message.rs: Message, Fragments *)

\* A text is the sequence of its pieces, a piece being one white-space
\* character " " or a run of characters that are not white space.
WhiteSpace == " "

Fragment(kind, text) == [kind |-> kind, text |-> text]

is_mention(f) == f.kind = "mention"

RECURSIVE trim_start(_)
trim_start(t) == IF t # <<>> /\ Head(t) = WhiteSpace THEN trim_start(Tail(t)) ELSE t

RECURSIVE trim_end(_)
trim_end(t) ==
  IF t # <<>> /\ t[Len(t)] = WhiteSpace THEN trim_end(SubSeq(t, 1, Len(t) - 1)) ELSE t

\* str::trim
trim(t) == trim_end(trim_start(t))

\* the body of the for loop: text is the Option accumulated so far
RECURSIVE written_loop(_, _)
written_loop(text, fragments) ==
  IF fragments = <<>> THEN text
  ELSE LET fragment == Head(fragments)
       IN  IF ~is_mention(fragment)
           THEN IF text # None
                THEN written_loop(Some(text[1] \o <<" ">> \o fragment.text), Tail(fragments))
                ELSE written_loop(Some(trim(fragment.text)), Tail(fragments))
           ELSE written_loop(text, Tail(fragments))

\* get_written_message trimming every fragment it appends
RECURSIVE written_loop_trim_all(_, _)
written_loop_trim_all(text, fragments) ==
  IF fragments = <<>> THEN text
  ELSE LET fragment == Head(fragments)
       IN  IF ~is_mention(fragment)
           THEN IF text # None
                THEN written_loop_trim_all(Some(text[1] \o <<" ">> \o trim(fragment.text)),
                                           Tail(fragments))
                ELSE written_loop_trim_all(Some(trim(fragment.text)), Tail(fragments))
           ELSE written_loop_trim_all(text, Tail(fragments))

get_written_message_trim_all(m) == written_loop_trim_all(None, m.fragments)

get_written_message(m) == written_loop(None, m.fragments)

-----------------------------------------------------------------------------
(* generic_message.rs: NewAccessTokenResponse *)

\* Token::new_user_token: the credential made of the three values
Token_new_user_token(access, refresh, expires_in) ==
  [access |-> access, refresh |-> refresh, expires_in |-> expires_in]

\* A response text either is no JSON object (json = FALSE) or is one, each of
\* whose fields is present with a value of its type, or not.  The derived
\* Deserialize fails when a field that is not an Option is missing; the
\* closure of map then unwraps refresh_token.
_get_token_from_data(raw_data) ==
  IF ~raw_data.json \/ raw_data.access_token = None \/ raw_data.expires_in = None
       \/ raw_data.token_type = None
  THEN [kind |-> "AuthorisationError", token |-> None]
  ELSE IF raw_data.refresh_token = None
       THEN [kind |-> "panic", token |-> None]
       ELSE [kind |-> "Token",
             token |-> Some(Token_new_user_token(raw_data.access_token[1],
                                                 raw_data.refresh_token[1],
                                                 raw_data.expires_in[1]))]

-----------------------------------------------------------------------------
(* A caller of the decoding helpers *)

MaxFragments == 3

Texts ==
  {<<>>, <<" ">>, <<"hello">>, <<"world">>, <<" ", "hello">>, <<"world", " ">>,
   <<" ", "hello", " ", "world", " ">>}
FragmentKinds == {"text", "mention", "emote"}
Fragments == {Fragment(k, t) : k \in FragmentKinds, t \in Texts}
RECURSIVE SeqsUpTo(_, _)
SeqsUpTo(S, n) ==
  IF n = 0 THEN {<<>>}
  ELSE LET shorter == SeqsUpTo(S, n - 1)
       IN  shorter \cup {Append(q, x) : q \in shorter, x \in S}
ChatMessages == {[text |-> "", fragments |-> fs] : fs \in SeqsUpTo(Fragments, MaxFragments)}

RawResponses ==
  {[json |-> FALSE, access_token |-> None, expires_in |-> None, token_type |-> None,
    refresh_token |-> None, scope |-> None]}
    \cup {[json |-> TRUE, access_token |-> a, expires_in |-> x, token_type |-> t,
           refresh_token |-> r, scope |-> sc] :
            a \in {None, Some("acc")}, x \in {None, Some(3600)},
            t \in {None, Some("bearer")}, r \in {None, Some("ref")},
            sc \in {None, Some(<<"user:read:chat">>)}}

\* the caller holds one input, a chat message or a response text, not yet decoded
DecodeInit ==
  /\ HttpIdle /\ QueryIdle /\ CatalogIdle
  /\ \E input \in ChatMessages \cup RawResponses :
       decoded = [op |-> "none", arg |-> Some(input), value |-> None]

GetWrittenMessage ==
  /\ decoded.op = "none"
  /\ "fragments" \in DOMAIN decoded.arg[1]
  /\ decoded' = [op |-> "get_written_message", arg |-> decoded.arg,
                 value |-> get_written_message(decoded.arg[1])]
  /\ UNCHANGED <<httpVars, queryVars, catalogVars>>

GetTokenFromData ==
  /\ decoded.op = "none"
  /\ "json" \in DOMAIN decoded.arg[1]
  /\ decoded' = [op |-> "_get_token_from_data", arg |-> decoded.arg,
                 value |-> _get_token_from_data(decoded.arg[1])]
  /\ UNCHANGED <<httpVars, queryVars, catalogVars>>

DecodeNext == GetWrittenMessage \/ GetTokenFromData

SpecDecode == DecodeInit /\ [][DecodeNext]_vars

-----------------------------------------------------------------------------
(* Properties of the decoding helpers *)

NonMention(fs) == SelectSeq(fs, LAMBDA f : f.kind # "mention")

RECURSIVE JoinTexts(_)
JoinTexts(fs) ==
  IF fs = <<>> THEN <<>> ELSE <<" ">> \o fs[1].text \o JoinTexts(Tail(fs))

StripEnds(t) ==
  LET keep == {i \in DOMAIN t : t[i] # " "}
  IN  IF keep = {} THEN <<>>
      ELSE SubSeq(t, CHOOSE i \in keep : \A j \in keep : i <= j,
                     CHOOSE i \in keep : \A j \in keep : i >= j)

\* C12: get_written_message returns the texts of the fragments that are not
\* mentions, in their order, joined by one space, only the first of them
\* trimmed of surrounding white space; it returns None exactly when every
\* fragment is a mention.
C12_WrittenMessage ==
  decoded.op = "get_written_message" =>
    LET texts == NonMention(decoded.arg[1].fragments)
    IN  IF texts = <<>> THEN decoded.value = None
        ELSE decoded.value = Some(StripEnds(texts[1].text) \o JoinTexts(Tail(texts)))

C12_Witness ==
  /\ decoded.op = "get_written_message"
  /\ decoded.arg[1].fragments =
       <<Fragment("mention", <<"hello">>), Fragment("text", <<"hello">>),
         Fragment("text", <<"world">>)>>
  /\ decoded.value = Some(<<"hello", " ", "world">>)

\* C13: decoding a token-exchange response ends with a Token built from
\* access_token, refresh_token and expires_in, or with AuthorisationError; a
\* well-formed response without refresh_token causes no panic.
C13_TokenOrAuthorisationError ==
  decoded.op = "_get_token_from_data" =>
    /\ decoded.value.kind \in {"Token", "AuthorisationError"}
    /\ decoded.value.kind = "Token" =>
         /\ decoded.value.token[1].access = decoded.arg[1].access_token[1]
         /\ decoded.value.token[1].refresh = decoded.arg[1].refresh_token[1]
         /\ decoded.value.token[1].expires_in = decoded.arg[1].expires_in[1]

====
